---- MODULE Spec2Model ----
(***************************************************************************)
(* Model of the sensor calibration sequencer of sensor_calibration.c:      *)
(* the calibration record, the seven calibrators, the validator, the       *)
(* EEPROM persistence, the state machine and the drift monitor.            *)
(*                                                                         *)
(* Number representation.                                                  *)
(*  - float quantities are fixed-point integers in hundredths (9.81f is    *)
(*    981); float rounding below that resolution is not modelled.  NaN is  *)
(*    a distinguished value on which every ordered comparison is false,    *)
(*    and +infinity is a value above every finite one.                     *)
(*  - pulses-per-meter hold an integer-valued float and are kept in whole  *)
(*    pulses.                                                              *)
(*  - uint32_t values (clock, timestamps, encoder counts, magic) are pairs *)
(*    <<high 16 bits, low 16 bits>> with exact modulo-2^32 arithmetic.     *)
(*  - uint16_t / uint8_t values are integers reduced modulo 2^16 / 2^8.    *)
(***************************************************************************)
EXTENDS Integers, Sequences, FiniteSets, TLC

\* ------------------------------------------------------------------------
\* Bounds of the model
\* ------------------------------------------------------------------------

\* number of calibration runs that may start in one behaviour
MaxRuns == 1

\* calls of the state machine before a calibration_init are counted up to
\* this number
MaxEarlier == 1

\* ------------------------------------------------------------------------
\* Fixed-point and machine-integer helpers
\* ------------------------------------------------------------------------

\* fixed-point denominator: one unit of a float is Scale hundredths
Scale == 10 * 10

\* the float NaN (every ordered comparison with it is false)
NaN == 0 - (2 ^ 30)

\* the float +infinity
Inf == 2 ^ 30

\* a > b on floats
FGt(a, b) == a # NaN /\ b # NaN /\ a > b

\* a < b on floats
FLt(a, b) == a # NaN /\ b # NaN /\ a < b

\* fabs() on floats
FAbs(a) == IF a = NaN THEN NaN ELSE IF a < 0 THEN 0 - a ELSE a

\* float division a / b of two finite fixed-point values, result in hundredths
FDiv(a, b) ==
  IF b = 0 THEN (IF a = 0 THEN NaN ELSE IF a > 0 THEN Inf ELSE 0 - Inf)
  ELSE (a * Scale) \div b

W16 == 2 ^ 16

\* uint32_t arithmetic on <<high, low>> pairs
U32Add(a, b) ==
  LET lo == a[2] + b[2]
  IN  <<(a[1] + b[1] + (lo \div W16)) % W16, lo % W16>>

U32Sub(a, b) ==
  LET borrow == IF a[2] < b[2] THEN 1 ELSE 0
  IN  <<(a[1] - b[1] - borrow + W16) % W16, (a[2] - b[2] + W16) % W16>>

U32Lt(a, b) == a[1] < b[1] \/ (a[1] = b[1] /\ a[2] < b[2])

\* the product k * a of a small natural k and a uint32_t, not reduced
\* (the high limb may exceed 16 bits): the value as a real number
WideMul(k, a) ==
  LET lo == k * a[2]
  IN  <<k * a[1] + (lo \div W16), lo % W16>>

WideGt(a, b) == a[1] > b[1] \/ (a[1] = b[1] /\ a[2] > b[2])

\* conversion of a uint32_t below 2^31 to a float holding the same integer
U32ToInt(a) == a[1] * W16 + a[2]

\* ------------------------------------------------------------------------
\* Definitions of sensor_calibration.c and sensor_calibration.h
\* ------------------------------------------------------------------------

CALIB_MAGIC == <<51966, 47806>>          \* 0xCAFEBABE

IMU_SAMPLES == 100
LIDAR_SAMPLES == 50
BATTERY_SAMPLES == 10
TEMP_SAMPLES == 10

\* CalibrationStatus_t
CALIB_INVALID == 0
CALIB_VALID == 1
CALIB_NEEDS_RECALIBRATION == 2

\* CalibrationState_t
CALIB_IDLE == 0
CALIB_IMU_INIT == 1
CALIB_IMU_RUNNING == 2
CALIB_MAG_INIT == 3
CALIB_MAG_RUNNING == 4
CALIB_ODOM_INIT == 5
CALIB_ODOM_RUNNING == 6
CALIB_LIDAR_INIT == 7
CALIB_LIDAR_RUNNING == 8
CALIB_CAMERA_INIT == 9
CALIB_CAMERA_RUNNING == 10
CALIB_BATTERY_INIT == 11
CALIB_BATTERY_RUNNING == 12
CALIB_TEMP_INIT == 13
CALIB_TEMP_RUNNING == 14
CALIB_VALIDATE == 15
CALIB_COMPLETE == 16
CALIB_ERROR == 17

\* the interval of monitor_sensor_drift, 3600000 ms, as a uint32_t
DRIFT_INTERVAL == <<54, 61056>>

\* SensorCalibration_t with every field zero: the static object before
\* calibration_init, and the result of memset in init_default_calibration
ZeroRecord ==
  [ magic |-> <<0, 0>>,
    imu_bias_x |-> 0, imu_bias_y |-> 0, imu_bias_z |-> 0,
    imu_scale_x |-> 0, imu_scale_y |-> 0, imu_scale_z |-> 0,
    mag_offset_x |-> 0, mag_offset_y |-> 0, mag_offset_z |-> 0,
    mag_scale_x |-> 0, mag_scale_y |-> 0, mag_scale_z |-> 0,
    pulses_per_meter_left |-> 0, pulses_per_meter_right |-> 0,
    lidar_offset_distance |-> 0, lidar_angle_offset |-> 0,
    camera_focal_length |-> 0,
    camera_principal_point_x |-> 0, camera_principal_point_y |-> 0,
    camera_distortion_k1 |-> 0, camera_distortion_k2 |-> 0,
    battery_voltage_offset |-> 0, battery_voltage_scale |-> 0,
    temp_offset |-> 0,
    timestamp |-> <<0, 0>>, calibration_count |-> 0, status |-> 0 ]

\* init_default_calibration: the record it leaves in *calib
DefaultRecord ==
  [ ZeroRecord EXCEPT
      !.magic = CALIB_MAGIC,
      !.imu_bias_x = 0, !.imu_bias_y = 0, !.imu_bias_z = 0,
      !.imu_scale_x = Scale, !.imu_scale_y = Scale, !.imu_scale_z = Scale,
      !.mag_offset_x = 0, !.mag_offset_y = 0, !.mag_offset_z = 0,
      !.mag_scale_x = Scale, !.mag_scale_y = Scale, !.mag_scale_z = Scale,
      !.pulses_per_meter_left = 1000, !.pulses_per_meter_right = 1000,
      !.lidar_offset_distance = 0, !.lidar_angle_offset = 0,
      !.camera_focal_length = 500 * Scale,
      !.camera_principal_point_x = 320 * Scale,
      !.camera_principal_point_y = 240 * Scale,
      !.camera_distortion_k1 = 0, !.camera_distortion_k2 = 0,
      !.battery_voltage_offset = 0, !.battery_voltage_scale = Scale,
      !.temp_offset = 0,
      !.timestamp = <<0, 0>>, !.calibration_count = 0,
      !.status = CALIB_INVALID ]

\* ------------------------------------------------------------------------
\* Inputs the collaborators may deliver
\* ------------------------------------------------------------------------

NoInput == [none |-> TRUE]

\* a failed read; a stationary unit with little noise; a vibrating unit
\* (x axis standard deviation 0.6)
ImuInputs ==
  { [fail_at |-> 3, ax |-> <<0, 0>>, ay |-> <<0, 0>>, az |-> <<981, 981>>],
    [fail_at |-> 0, ax |-> <<10, 10>>, ay |-> <<-20, -20>>, az |-> <<1011, 1011>>],
    [fail_at |-> 0, ax |-> <<-60, 60>>, ay |-> <<-20, -20>>, az |-> <<1011, 1011>>] }

\* a failed read; a sweep with equal swing on the three axes; a unit held
\* still (one reading, no swing on any axis)
MagInputs ==
  { [fail_at |-> 2, samples |-> << <<0, 0, 0>> >>],
    [fail_at |-> 0, samples |-> << <<-3000, -3000, -3000>>, <<5000, 5000, 5000>> >>],
    [fail_at |-> 0, samples |-> << <<1200, 1200, 1200>> >>] }

\* a failed move; equal counts; counts 18% apart; counts too low for the
\* validator
OdomInputs ==
  { [move_ok |-> FALSE, left |-> <<0, 0>>, right |-> <<0, 0>>],
    [move_ok |-> TRUE, left |-> <<0, 1000>>, right |-> <<0, 1000>>],
    [move_ok |-> TRUE, left |-> <<0, 1200>>, right |-> <<0, 1000>>],
    [move_ok |-> TRUE, left |-> <<0, 300>>, right |-> <<0, 300>>] }

\* a failed read at sample 7; a target seen at 1.04 m
LidarInputs ==
  { [neg_at |-> 7, d |-> <<104, 104>>],
    [neg_at |-> 0, d |-> <<104, 104>>] }

BatteryInputs ==
  { [fail_at |-> 4, v |-> <<1200, 1200>>],
    [fail_at |-> 0, v |-> <<1180, 1180>>] }

TempInputs ==
  { [fail_at |-> 1, t |-> <<2500, 2500>>],
    [fail_at |-> 0, t |-> <<2300, 2300>>] }

\* the inputs a call of the state machine may consume in state st
InputsAt(st) ==
  CASE st = CALIB_IMU_RUNNING -> ImuInputs
    [] st = CALIB_MAG_RUNNING -> MagInputs
    [] st = CALIB_ODOM_RUNNING -> OdomInputs
    [] st = CALIB_LIDAR_RUNNING -> LidarInputs
    [] st = CALIB_BATTERY_RUNNING -> BatteryInputs
    [] st = CALIB_TEMP_RUNNING -> TempInputs
    [] OTHER -> {NoInput}

\* inertial readings of the drift monitor: a failed read; the stationary
\* unit of ImuInputs unchanged; a reading close to the stored bias
DriftInputs ==
  { [ok |-> FALSE, ax |-> 0, ay |-> 0, az |-> 0],
    [ok |-> TRUE, ax |-> 10, ay |-> -20, az |-> 1011],
    [ok |-> TRUE, ax |-> 10, ay |-> -20, az |-> 30] }

\* ------------------------------------------------------------------------
\* Inputs and records for the functions called on their own
\* ------------------------------------------------------------------------

\* encoder counts after the 1 m move
EncoderCounts == {0, 850, 1000, 1001, 1160, 1200}

\* a failed move, and every pair of counts after a successful one
OdomCases ==
  {[move_ok |-> FALSE, left |-> <<0, 1000>>, right |-> <<0, 1000>>]}
    \cup {[move_ok |-> TRUE, left |-> <<0, l>>, right |-> <<0, r>>] :
            l \in EncoderCounts, r \in EncoderCounts}

\* a read failing at the first or at the last sample; still units with
\* several biases; units vibrating with standard deviation 0.5, 0.51, 0.6
\* and 1.0 on one axis
ImuCases ==
  { [fail_at |-> 1, ax |-> <<0, 0>>, ay |-> <<0, 0>>, az |-> <<981, 981>>],
    [fail_at |-> 100, ax |-> <<0, 0>>, ay |-> <<0, 0>>, az |-> <<981, 981>>],
    [fail_at |-> 0, ax |-> <<0, 0>>, ay |-> <<0, 0>>, az |-> <<981, 981>>],
    [fail_at |-> 0, ax |-> <<10, 10>>, ay |-> <<-20, -20>>, az |-> <<1011, 1011>>],
    [fail_at |-> 0, ax |-> <<-300, -300>>, ay |-> <<250, 250>>, az |-> <<481, 481>>],
    [fail_at |-> 0, ax |-> <<600, 600>>, ay |-> <<0, 0>>, az |-> <<981, 981>>],
    [fail_at |-> 0, ax |-> <<-50, 50>>, ay |-> <<0, 0>>, az |-> <<981, 981>>],
    [fail_at |-> 0, ax |-> <<-51, 51>>, ay |-> <<0, 0>>, az |-> <<981, 981>>],
    [fail_at |-> 0, ax |-> <<0, 0>>, ay |-> <<-40, 60>>, az |-> <<931, 1031>>],
    [fail_at |-> 0, ax |-> <<0, 0>>, ay |-> <<-60, 60>>, az |-> <<981, 981>>],
    [fail_at |-> 0, ax |-> <<0, 0>>, ay |-> <<0, 0>>, az |-> <<881, 1081>>] }

\* a negative reading at the first or at the last sample; targets at
\* 1.04 m, 1.50 m, 0 m, 10 m and 0.70 m; a noisy target (0.90 / 1.10 m)
LidarCases ==
  { [neg_at |-> 1, d |-> <<104, 104>>],
    [neg_at |-> 50, d |-> <<104, 104>>],
    [neg_at |-> 0, d |-> <<104, 104>>],
    [neg_at |-> 0, d |-> <<150, 150>>],
    [neg_at |-> 0, d |-> <<0, 0>>],
    [neg_at |-> 0, d |-> <<1000, 1000>>],
    [neg_at |-> 0, d |-> <<70, 70>>],
    [neg_at |-> 0, d |-> <<90, 110>>] }

\* magnetometer sweeps: a failed first and a failed later read; equal
\* swings on the three axes; unequal swings (three samples, extremes in any
\* position); a unit that was not rotated; a rotation that leaves one axis
\* constant
MagCases ==
  { [fail_at |-> 1, samples |-> << <<0, 0, 0>> >>],
    [fail_at |-> 2, samples |-> << <<-3000, -3000, -3000>>, <<5000, 5000, 5000>> >>],
    [fail_at |-> 0, samples |-> << <<-3000, -3000, -3000>>, <<5000, 5000, 5000>> >>],
    [fail_at |-> 0, samples |-> << <<-1000, 100, 0>>, <<1000, 4100, 400>> >>],
    [fail_at |-> 0,
     samples |-> << <<1000, -4000, 12000>>, <<-3000, 0, 0>>, <<500, 4000, 6000>> >>],
    [fail_at |-> 0, samples |-> << <<1200, 1200, 1200>> >>],
    [fail_at |-> 0, samples |-> << <<1200, -3000, -3000>>, <<1200, 3000, 3000>> >>] }

\* changes of one field of a record: <<field, value>>
FieldEdits ==
  { <<"magic", <<0, 0>> >>, <<"magic", <<51966, 47807>> >>,
    <<"magic", <<51966, 47806>> >>,
    <<"imu_bias_x", 500>>, <<"imu_bias_x", 501>>, <<"imu_bias_x", -500>>,
    <<"imu_bias_x", -501>>, <<"imu_bias_y", 501>>, <<"imu_bias_z", -501>>,
    <<"imu_bias_z", NaN>>,
    <<"imu_scale_x", 49>>, <<"imu_scale_x", 50>>, <<"imu_scale_x", 200>>,
    <<"imu_scale_x", 201>>, <<"imu_scale_y", 49>>, <<"imu_scale_z", 201>>,
    <<"mag_scale_x", 49>>, <<"mag_scale_x", 50>>, <<"mag_scale_x", 200>>,
    <<"mag_scale_x", 201>>, <<"mag_scale_y", NaN>>, <<"mag_scale_z", 201>>,
    <<"pulses_per_meter_left", 499>>, <<"pulses_per_meter_left", 500>>,
    <<"pulses_per_meter_left", 2000>>, <<"pulses_per_meter_left", 2001>>,
    <<"pulses_per_meter_right", 499>>, <<"pulses_per_meter_right", 2001>>,
    <<"camera_focal_length", 9999>>, <<"camera_focal_length", 10000>>,
    <<"camera_focal_length", 100000>>, <<"camera_focal_length", 100001>>,
    <<"calibration_count", 65535>>, <<"timestamp", <<54, 61056>> >> }

\* ranging offsets: none, 0.20, 0.21, -50 m
LidarOffsets == {0, 20, 21, -5000}

\* status bytes: the three of CalibrationStatus_t and an erased byte
StatusBytes == {CALIB_INVALID, CALIB_VALID, CALIB_NEEDS_RECALIBRATION, 255}

\* records the functions are called on: the default record with one field
\* changed, a ranging offset and a status
RecordCases ==
  { [DefaultRecord EXCEPT ![e[1]] = e[2],
                          !.lidar_offset_distance = o,
                          !.status = st] :
      e \in FieldEdits, o \in LidarOffsets, st \in StatusBytes }

\* ------------------------------------------------------------------------
\* Sensor inputs.  A sampling loop reads sample 1, 2, ...; a sample sequence
\* is given by a pair <<a, b>>: odd-numbered samples read a, even-numbered
\* samples read b.  fail_at = k > 0 makes read number k fail.
\* ------------------------------------------------------------------------

\* sample number i of the sequence given by the pair p
Sample(p, i) == IF i % 2 = 1 THEN p[1] ELSE p[2]

RECURSIVE SumTo(_, _)
\* the sum of samples 1..n, accumulated as the sampling loops do
SumTo(p, n) == IF n = 0 THEN 0 ELSE SumTo(p, n - 1) + Sample(p, n)

RECURSIVE SumSqTo(_, _)
\* the sum of the squares of samples 1..n
SumSqTo(p, n) == IF n = 0 THEN 0 ELSE SumSqTo(p, n - 1) + Sample(p, n) * Sample(p, n)

\* sqrtf(var) > t for a threshold t >= 0: false when var is negative
\* (sqrtf yields NaN) and otherwise var > t * t
StdGt_Variance(var, t) == var > t

StdGt(var, t) == var > t * t

\* ------------------------------------------------------------------------
\* calibrate_imu
\* ------------------------------------------------------------------------

\* the sampling loop of calibrate_imu on the samples of in: the six
\* accumulators after IMU_SAMPLES successful reads
ImuAccumulate(in) ==
  [acc_x_sum |-> SumTo(in.ax, IMU_SAMPLES),
   acc_y_sum |-> SumTo(in.ay, IMU_SAMPLES),
   acc_z_sum |-> SumTo(in.az, IMU_SAMPLES),
   acc_x_sq_sum |-> SumSqTo(in.ax, IMU_SAMPLES),
   acc_y_sq_sum |-> SumSqTo(in.ay, IMU_SAMPLES),
   acc_z_sq_sum |-> SumSqTo(in.az, IMU_SAMPLES)]

\* the loop's accumulators for every input of the model, computed once
ImuLoop == [in \in ImuInputs \cup ImuCases |-> ImuAccumulate(in)]

\* in = [fail_at, ax, ay, az]; the result is the return value and the
\* global record as the call leaves it
calibrate_imu(c, in) ==
  IF in.fail_at # 0
  THEN [ok |-> FALSE, calib |-> c]
  ELSE
    LET a == ImuLoop[in]
        acc_x_mean == a.acc_x_sum \div IMU_SAMPLES
        acc_y_mean == a.acc_y_sum \div IMU_SAMPLES
        acc_z_mean == a.acc_z_sum \div IMU_SAMPLES
        biased == [c EXCEPT !.imu_bias_x = acc_x_mean,
                            !.imu_bias_y = acc_y_mean,
                            !.imu_bias_z = acc_z_mean - 981]
        acc_x_var == (a.acc_x_sq_sum \div IMU_SAMPLES) - acc_x_mean * acc_x_mean
        acc_y_var == (a.acc_y_sq_sum \div IMU_SAMPLES) - acc_y_mean * acc_y_mean
        acc_z_var == (a.acc_z_sq_sum \div IMU_SAMPLES) - acc_z_mean * acc_z_mean
    IN  IF StdGt(acc_x_var, Scale \div 2) \/ StdGt(acc_y_var, Scale \div 2)
           \/ StdGt(acc_z_var, Scale \div 2)
        THEN [ok |-> FALSE, calib |-> biased]
        ELSE [ok |-> TRUE,
              calib |-> [biased EXCEPT !.imu_scale_x = Scale,
                                       !.imu_scale_y = Scale,
                                       !.imu_scale_z = Scale]]

\* ------------------------------------------------------------------------
\* calibrate_magnetometer
\* ------------------------------------------------------------------------

RECURSIVE MinTo(_, _, _, _)
\* the running minimum of component k of samples 1..n, from its initial value
MinTo(samples, k, n, init) ==
  IF n = 0 THEN init
  ELSE LET m == MinTo(samples, k, n - 1, init)
       IN  IF samples[n][k] < m THEN samples[n][k] ELSE m

RECURSIVE MaxTo(_, _, _, _)
\* the running maximum of component k of samples 1..n, from its initial value
MaxTo(samples, k, n, init) ==
  IF n = 0 THEN init
  ELSE LET m == MaxTo(samples, k, n - 1, init)
       IN  IF samples[n][k] > m THEN samples[n][k] ELSE m

\* in = [fail_at, samples]: samples is the sequence of <<mx, my, mz>> read
\* during the rotation window (at least one: the window is open at the
\* first test of the loop)
calibrate_magnetometer(c, in) ==
  IF in.fail_at # 0
  THEN [ok |-> FALSE, calib |-> c]
  ELSE
    LET n == Len(in.samples)
        mag_x_min == MinTo(in.samples, 1, n, 32767 * Scale)
        mag_x_max == MaxTo(in.samples, 1, n, (0 - 32768) * Scale)
        mag_y_min == MinTo(in.samples, 2, n, 32767 * Scale)
        mag_y_max == MaxTo(in.samples, 2, n, (0 - 32768) * Scale)
        mag_z_min == MinTo(in.samples, 3, n, 32767 * Scale)
        mag_z_max == MaxTo(in.samples, 3, n, (0 - 32768) * Scale)
        avg_delta_x == (mag_x_max - mag_x_min) \div 2
        avg_delta_y == (mag_y_max - mag_y_min) \div 2
        avg_delta_z == (mag_z_max - mag_z_min) \div 2
        avg_delta == (avg_delta_x + avg_delta_y + avg_delta_z) \div 3
    IN  [ok |-> TRUE,
         calib |-> [c EXCEPT !.mag_offset_x = (mag_x_max + mag_x_min) \div 2,
                             !.mag_offset_y = (mag_y_max + mag_y_min) \div 2,
                             !.mag_offset_z = (mag_z_max + mag_z_min) \div 2,
                             !.mag_scale_x = FDiv(avg_delta, avg_delta_x),
                             !.mag_scale_y = FDiv(avg_delta, avg_delta_y),
                             !.mag_scale_z = FDiv(avg_delta, avg_delta_z)]]

\* ------------------------------------------------------------------------
\* calibrate_odometer
\* ------------------------------------------------------------------------

\* fabs(pulses_left - pulses_right) / ((pulses_left + pulses_right) / 2.0f)
\* > 0.15f, with the difference and the sum taken in uint32_t as the code
\* takes them: diff / (sum / 2) > 15 / 100 is 40 * diff > 3 * sum; a zero
\* sum divides by zero (NaN for 0 / 0, never greater; +infinity otherwise)
EncoderErrorTooHigh(pulses_left, pulses_right) ==
  LET diff == U32Sub(pulses_left, pulses_right)
      sum == U32Add(pulses_left, pulses_right)
  IN  IF sum = <<0, 0>>
      THEN diff # <<0, 0>>
      ELSE WideGt(WideMul(40, diff), WideMul(3, sum))

\* in = [move_ok, left, right]: the result of move_forward_distance and the
\* two encoder counts read after it
calibrate_odometer(c, in) ==
  IF ~in.move_ok
  THEN [ok |-> FALSE, calib |-> c]
  ELSE
    LET written == [c EXCEPT !.pulses_per_meter_left = U32ToInt(in.left),
                             !.pulses_per_meter_right = U32ToInt(in.right)]
    IN  [ok |-> ~EncoderErrorTooHigh(in.left, in.right), calib |-> written]

\* ------------------------------------------------------------------------
\* calibrate_lidar, calibrate_camera, calibrate_battery, calibrate_temperature
\* ------------------------------------------------------------------------

\* in = [neg_at, d]: read number neg_at (when > 0) returns the negative
\* sentinel -1.0; the reads that succeed alternate d[1], d[2] (both >= 0)
LidarLoop == [in \in LidarInputs \cup LidarCases |-> SumTo(in.d, LIDAR_SAMPLES)]

calibrate_lidar_Strict(c, in) ==
  IF in.neg_at \in 1..LIDAR_SAMPLES
  THEN [ok |-> FALSE, calib |-> c]
  ELSE
    LET avg_distance == LidarLoop[in] \div LIDAR_SAMPLES
    IN  [ok |-> ~FGt(FAbs(Scale - avg_distance), Scale \div 10),
         calib |-> [c EXCEPT !.lidar_offset_distance = Scale - avg_distance]]

calibrate_lidar(c, in) ==
  IF in.neg_at \in 1..LIDAR_SAMPLES
  THEN [ok |-> FALSE, calib |-> c]
  ELSE
    LET avg_distance == LidarLoop[in] \div LIDAR_SAMPLES
    IN  [ok |-> TRUE,
         calib |-> [c EXCEPT !.lidar_offset_distance = Scale - avg_distance]]

calibrate_camera(c) ==
  [ok |-> TRUE,
   calib |-> [c EXCEPT !.camera_focal_length = 500 * Scale,
                       !.camera_principal_point_x = 320 * Scale,
                       !.camera_principal_point_y = 240 * Scale,
                       !.camera_distortion_k1 = 0,
                       !.camera_distortion_k2 = 0]]

\* in = [fail_at, v]: voltage samples alternate v[1], v[2]
calibrate_battery(c, in) ==
  IF in.fail_at # 0
  THEN [ok |-> FALSE, calib |-> c]
  ELSE
    LET avg_voltage == SumTo(in.v, BATTERY_SAMPLES)
                         \div BATTERY_SAMPLES
    IN  [ok |-> TRUE,
         calib |-> [c EXCEPT !.battery_voltage_offset = 12 * Scale - avg_voltage,
                             !.battery_voltage_scale = Scale]]

\* in = [fail_at, t]: temperature samples alternate t[1], t[2]
calibrate_temperature(c, in) ==
  IF in.fail_at # 0
  THEN [ok |-> FALSE, calib |-> c]
  ELSE
    LET avg_temp == SumTo(in.t, TEMP_SAMPLES)
                      \div TEMP_SAMPLES
    IN  [ok |-> TRUE, calib |-> [c EXCEPT !.temp_offset = 25 * Scale - avg_temp]]

\* ------------------------------------------------------------------------
\* validate_calibration
\* ------------------------------------------------------------------------

OutOfRange(v, lo, hi) == FLt(v, lo) \/ FGt(v, hi)

validate_calibration(c) ==
  /\ c.magic = CALIB_MAGIC
  /\ ~(\/ FGt(FAbs(c.imu_bias_x), 5 * Scale)
       \/ FGt(FAbs(c.imu_bias_y), 5 * Scale)
       \/ FGt(FAbs(c.imu_bias_z), 5 * Scale))
  /\ ~(\/ OutOfRange(c.imu_scale_x, Scale \div 2, 2 * Scale)
       \/ OutOfRange(c.imu_scale_y, Scale \div 2, 2 * Scale)
       \/ OutOfRange(c.imu_scale_z, Scale \div 2, 2 * Scale))
  /\ ~(\/ OutOfRange(c.mag_scale_x, Scale \div 2, 2 * Scale)
       \/ OutOfRange(c.mag_scale_y, Scale \div 2, 2 * Scale)
       \/ OutOfRange(c.mag_scale_z, Scale \div 2, 2 * Scale))
  /\ ~OutOfRange(c.pulses_per_meter_left, 500, 2000)
  /\ ~OutOfRange(c.pulses_per_meter_right, 500, 2000)
  /\ ~OutOfRange(c.camera_focal_length, 100 * Scale, 1000 * Scale)

\* ------------------------------------------------------------------------
\* Persistence
\* ------------------------------------------------------------------------

\* variant of init_default_calibration: without the memset and the
\* metadata assignments that follow the coefficients
init_default_calibration_KeepMeta(c) ==
  [DefaultRecord EXCEPT !.timestamp = c.timestamp,
                        !.calibration_count = c.calibration_count]

\* init_default_calibration(calib): memset, then the default of every field
init_default_calibration(c) == DefaultRecord

\* variant of save_calibration_to_eeprom: the write stops before the
\* metadata, which stay erased
save_calibration_to_eeprom_Short(c) ==
  [c EXCEPT !.timestamp = <<65535, 65535>>, !.calibration_count = 65535,
            !.status = 255]

\* save_calibration_to_eeprom: the image eeprom_write leaves in the store
\* (a copy of the bytes of *calib)
save_calibration_to_eeprom(c) == c

\* variant of load_calibration_from_eeprom: the magic is not tested
load_calibration_from_eeprom_NoMagic(image) ==
  IF image.status = CALIB_VALID
  THEN image
  ELSE init_default_calibration(image)

\* load_calibration_from_eeprom: the record it leaves in *calib, given the
\* stored image
load_calibration_from_eeprom(image) ==
  IF image.status = CALIB_VALID /\ image.magic = CALIB_MAGIC
  THEN image
  ELSE init_default_calibration(image)

\* ------------------------------------------------------------------------
\* calibration_state_machine: one call.  t is the value of get_time_ms(),
\* in the sensor input of the calibrator the call runs (if it runs one).
\* The result gives the globals after the call; wrote tells whether
\* eeprom_write was called, and result what the calibrator or the validator
\* the call ran returned ("ok", "fail"; "none" when it ran neither).
\* ------------------------------------------------------------------------

RunningStates ==
  {CALIB_IMU_RUNNING, CALIB_MAG_RUNNING, CALIB_ODOM_RUNNING, CALIB_LIDAR_RUNNING,
   CALIB_CAMERA_RUNNING, CALIB_BATTERY_RUNNING, CALIB_TEMP_RUNNING}

InitStates ==
  {CALIB_IMU_INIT, CALIB_MAG_INIT, CALIB_ODOM_INIT, CALIB_LIDAR_INIT,
   CALIB_CAMERA_INIT, CALIB_BATTERY_INIT, CALIB_TEMP_INIT}

\* the calibrator a Running state calls
Calibrate(st, c, in) ==
  CASE st = CALIB_IMU_RUNNING -> calibrate_imu(c, in)
    [] st = CALIB_MAG_RUNNING -> calibrate_magnetometer(c, in)
    [] st = CALIB_ODOM_RUNNING -> calibrate_odometer(c, in)
    [] st = CALIB_LIDAR_RUNNING -> calibrate_lidar(c, in)
    [] st = CALIB_CAMERA_RUNNING -> calibrate_camera(c)
    [] st = CALIB_BATTERY_RUNNING -> calibrate_battery(c, in)
    [] st = CALIB_TEMP_RUNNING -> calibrate_temperature(c, in)

\* variant of AfterRunning: a successful stage skips the next sensor's Init
AfterRunning_SkipInit(st, ok) ==
  IF ~ok THEN CALIB_ERROR
  ELSE IF st = CALIB_TEMP_RUNNING THEN CALIB_VALIDATE
  ELSE st + 2

\* variant of AfterRunning: the calibrator's return value is ignored
AfterRunning_IgnoreFailure(st, ok) ==
  IF st = CALIB_TEMP_RUNNING THEN CALIB_VALIDATE ELSE st + 1

\* the state a Running state moves to, given what its calibrator returned
AfterRunning(st, ok) ==
  IF ~ok THEN CALIB_ERROR
  ELSE IF st = CALIB_TEMP_RUNNING THEN CALIB_VALIDATE
  ELSE st + 1

\* the state CALIB_VALIDATE moves to, given what the validator returned
AfterValidate(ok) == IF ok THEN CALIB_COMPLETE ELSE CALIB_ERROR

\* variant of CompleteRecord: the run counter is left alone
CompleteRecord_NoCount(c, t) ==
  [c EXCEPT !.status = CALIB_VALID, !.timestamp = t]

\* variant of CompleteRecord: the timestamp is left alone
CompleteRecord_NoTimestamp(c, t) ==
  [c EXCEPT !.status = CALIB_VALID,
            !.calibration_count = (c.calibration_count + 1) % W16]

\* case CALIB_COMPLETE: the record after the three updates
CompleteRecord(c, t) ==
  [c EXCEPT !.status = CALIB_VALID,
            !.timestamp = t,
            !.calibration_count = (c.calibration_count + 1) % W16]

\* variant of ErrorRecord: the status is left alone
ErrorRecord_KeepStatus(c) == c

\* case CALIB_ERROR: the record after it
ErrorRecord(c) == [c EXCEPT !.status = CALIB_INVALID]

\* variant of Persist: case CALIB_ERROR saves the record too
Persist_SaveOnError(st, c2, image) ==
  IF st \in {CALIB_COMPLETE, CALIB_ERROR}
  THEN [eeprom |-> save_calibration_to_eeprom(c2), wrote |-> TRUE]
  ELSE [eeprom |-> image, wrote |-> FALSE]

\* variant of Persist: every Running state saves the record it leaves
Persist_SaveEachStage(st, c2, image) ==
  IF st = CALIB_COMPLETE \/ st \in RunningStates
  THEN [eeprom |-> save_calibration_to_eeprom(c2), wrote |-> TRUE]
  ELSE [eeprom |-> image, wrote |-> FALSE]

\* the store after a call in state st that leaves the record c2: only
\* case CALIB_COMPLETE calls save_calibration_to_eeprom
Persist(st, c2, image) ==
  IF st = CALIB_COMPLETE
  THEN [eeprom |-> save_calibration_to_eeprom(c2), wrote |-> TRUE]
  ELSE [eeprom |-> image, wrote |-> FALSE]

\* what the calibrator or the validator called in state st returns, and the
\* record as it leaves it (in is consulted in Running states)
Stage(st, c, in) ==
  IF st \in RunningStates THEN Calibrate(st, c, in)
  ELSE IF st = CALIB_VALIDATE THEN [ok |-> validate_calibration(c), calib |-> c]
  ELSE [ok |-> TRUE, calib |-> c]

\* the record after a call in state st whose stage left c2
RecordAfter(st, c2, t) ==
  IF st = CALIB_COMPLETE THEN CompleteRecord(c2, t)
  ELSE IF st = CALIB_ERROR THEN ErrorRecord(c2)
  ELSE c2

\* the switch on calib_state: the state after a call in state st
StateAfter(st, req, ok) ==
  CASE st = CALIB_IDLE -> IF req THEN CALIB_IMU_INIT ELSE CALIB_IDLE
    [] st \in InitStates -> st + 1
    [] st \in RunningStates -> AfterRunning(st, ok)
    [] st = CALIB_VALIDATE -> AfterValidate(ok)
    [] st \in {CALIB_COMPLETE, CALIB_ERROR} -> CALIB_IDLE
    [] OTHER -> CALIB_IDLE

\* variant of FlagAfter: the flag is cleared as soon as the validation has
\* been made
FlagAfter_ClearOnValidate(st, req) ==
  IF st \in {CALIB_VALIDATE, CALIB_COMPLETE, CALIB_ERROR} THEN FALSE ELSE req

\* calibration_requested after a call in state st
FlagAfter(st, req) == IF st \in {CALIB_COMPLETE, CALIB_ERROR} THEN FALSE ELSE req

\* what the call's calibrator or validator returned, for the history
ResultOf(st, ok) ==
  IF st \in RunningStates \/ st = CALIB_VALIDATE
  THEN (IF ok THEN "ok" ELSE "fail")
  ELSE "none"

\* the globals and the store after a call in state st whose stage returned
\* s.ok, given the record c3 and the store p the call leaves
Outcome(st, req, s, c3, p) ==
  [calib |-> c3,
   calib_state |-> StateAfter(st, req, s.ok),
   calibration_requested |-> FlagAfter(st, req),
   eeprom |-> p.eeprom,
   wrote |-> p.wrote,
   result |-> ResultOf(st, s.ok)]

Conclude(st, req, image, s, c3) == Outcome(st, req, s, c3, Persist(st, c3, image))

Proceed(st, req, image, t, s) == Conclude(st, req, image, s, RecordAfter(st, s.calib, t))

calibration_state_machine(c, st, req, image, t, in) ==
  Proceed(st, req, image, t, Stage(st, c, in))

\* ------------------------------------------------------------------------
\* monitor_sensor_drift: one call.  last is the static last_check, t the
\* value of get_time_ms(), in = [ok, ax, ay, az] the result of read_imu_raw
\* (consulted only when the call is eligible).
\* ------------------------------------------------------------------------

DriftEligible(last, t) == ~U32Lt(U32Sub(t, last), DRIFT_INTERVAL)

\* variant of DriftDetected: only the x axis is compared
DriftDetected_XOnly(c, in) ==
  FGt(FAbs(in.ax - c.imu_bias_x), 2 * Scale)

DriftDetected(c, in) ==
  \/ FGt(FAbs(in.ax - c.imu_bias_x), 2 * Scale)
  \/ FGt(FAbs(in.ay - c.imu_bias_y), 2 * Scale)
  \/ FGt(FAbs(in.az - c.imu_bias_z), 2 * Scale)

\* variant of monitor_sensor_drift: last_check is set after the read
\* succeeded
monitor_sensor_drift_StampAfterRead(c, last, t, in) ==
  IF ~DriftEligible(last, t)
  THEN [calib |-> c, last_check |-> last]
  ELSE IF ~in.ok
  THEN [calib |-> c, last_check |-> last]
  ELSE IF DriftDetected(c, in)
  THEN [calib |-> [c EXCEPT !.status = CALIB_NEEDS_RECALIBRATION], last_check |-> t]
  ELSE [calib |-> c, last_check |-> t]

\* variant of monitor_sensor_drift: a reading without drift marks the
\* record Valid again
monitor_sensor_drift_Clears(c, last, t, in) ==
  IF ~DriftEligible(last, t)
  THEN [calib |-> c, last_check |-> last]
  ELSE IF ~in.ok
  THEN [calib |-> c, last_check |-> t]
  ELSE IF DriftDetected(c, in)
  THEN [calib |-> [c EXCEPT !.status = CALIB_NEEDS_RECALIBRATION], last_check |-> t]
  ELSE [calib |-> [c EXCEPT !.status = CALIB_VALID], last_check |-> t]

monitor_sensor_drift(c, last, t, in) ==
  IF ~DriftEligible(last, t)
  THEN [calib |-> c, last_check |-> last]
  ELSE IF ~in.ok
  THEN [calib |-> c, last_check |-> t]
  ELSE IF DriftDetected(c, in)
  THEN [calib |-> [c EXCEPT !.status = CALIB_NEEDS_RECALIBRATION], last_check |-> t]
  ELSE [calib |-> c, last_check |-> t]

\* variant of request_calibration: the test of the state is inverted
request_calibration_Inverted(st, req) == IF st = CALIB_IDLE THEN req ELSE TRUE

\* request_calibration: the pending-request flag after the call
request_calibration(st, req) == IF st # CALIB_IDLE THEN req ELSE TRUE

\* calibration_init: the record it leaves in calib, given the stored image
calibration_init(image) ==
  LET loaded == load_calibration_from_eeprom(image)
  IN  IF loaded.status # CALIB_VALID THEN init_default_calibration(loaded) ELSE loaded

\* reset_calibration_to_default: the record it leaves in calib and in the store
reset_calibration_to_default(c) ==
  LET d == init_default_calibration(c)
  IN  [calib |-> d, eeprom |-> save_calibration_to_eeprom(d)]

\* an erased store: every byte 0xFF
ErasedImage ==
  [ magic |-> <<65535, 65535>>,
    imu_bias_x |-> NaN, imu_bias_y |-> NaN, imu_bias_z |-> NaN,
    imu_scale_x |-> NaN, imu_scale_y |-> NaN, imu_scale_z |-> NaN,
    mag_offset_x |-> NaN, mag_offset_y |-> NaN, mag_offset_z |-> NaN,
    mag_scale_x |-> NaN, mag_scale_y |-> NaN, mag_scale_z |-> NaN,
    pulses_per_meter_left |-> NaN, pulses_per_meter_right |-> NaN,
    lidar_offset_distance |-> NaN, lidar_angle_offset |-> NaN,
    camera_focal_length |-> NaN,
    camera_principal_point_x |-> NaN, camera_principal_point_y |-> NaN,
    camera_distortion_k1 |-> NaN, camera_distortion_k2 |-> NaN,
    battery_voltage_offset |-> NaN, battery_voltage_scale |-> NaN,
    temp_offset |-> NaN,
    timestamp |-> <<65535, 65535>>, calibration_count |-> 65535, status |-> 255 ]

\* the image left by an earlier power cycle of this program whose run
\* counter had reached its largest value: a completed run on ideal sensors
WornImage ==
  [ DefaultRecord EXCEPT !.status = CALIB_VALID, !.calibration_count = 65535 ]

\* the content of the store when the program starts
InitialImages == {ErasedImage, WornImage}

\* the millisecond clock is observed at these values: the start and one
\* drift interval later
CLOCK_STEP == DRIFT_INTERVAL

ClockStart == <<0, 0>>

ClockValues == {ClockStart, U32Add(ClockStart, CLOCK_STEP)}

\* ------------------------------------------------------------------------
\* State
\* ------------------------------------------------------------------------

VARIABLES
  calib,                  \* static SensorCalibration_t calib
  calib_state,            \* static CalibrationState_t calib_state
  calibration_requested,  \* static bool calibration_requested
  last_check,             \* static uint32_t last_check of monitor_sensor_drift
  eeprom,                 \* the image at CALIB_EEPROM_ADDR
  now,                    \* the value get_time_ms() returns
  op,                     \* history: the last operation called
  prev_state,             \* history: calib_state before the last operation
  wrote,                  \* history: the last operation called eeprom_write
  drifted,                \* history: the last operation's drift check set the status
  result,                 \* history: what the last operation's calibrator or validator returned
  runs,                   \* history: number of accepted requests that started a run
  run,                    \* history of the current run, see NoRun
  arg,                    \* history: the argument of a function called on its own
  since_reading           \* history: time since the drift monitor last became
                          \* eligible (or since boot), saturating, in ms

vars == <<calib, calib_state, calibration_requested, last_check, eeprom, now,
          op, prev_state, wrote, drifted, result, runs, run, arg, since_reading>>

\* history of a run.
\*   count0    the run counter when the pending request was accepted
\*             (request_calibration called in Idle)
\*   disturbed reset_calibration_to_default or calibration_init was called
\*             since the request was accepted
\*   ticks     the calls of the state machine in the run so far, from the
\*             call that left Idle
\*   image0    the stored image when the run started (at the call that
\*             left Idle)
\*   reset     reset_calibration_to_default was called since the run started
\*   started   a run has left Idle since the request was accepted
\*   earlier   the calls of the state machine made for the pending request
\*             before the last calibration_init, counted up to MaxEarlier
\* The history of a run is kept until the operation after its last call.
NoRun ==
  [ticks |-> 0, count0 |-> 0, image0 |-> ZeroRecord, disturbed |-> FALSE,
   reset |-> FALSE, started |-> FALSE, earlier |-> 0]

\* the history an operation finds: none when no request is pending
CurrentRun == IF calib_state = CALIB_IDLE /\ ~calibration_requested THEN NoRun ELSE run

\* the call of the state machine about to be made starts the first run of
\* the pending request
FirstStart == calib_state = CALIB_IDLE /\ calibration_requested /\ ~CurrentRun.started

NewRequest(c) == [NoRun EXCEPT !.count0 = c.calibration_count]

\* the history after a call of the state machine that took st to st2
RunAfterTick(r, st, st2, image) ==
  IF st # CALIB_IDLE THEN [r EXCEPT !.ticks = r.ticks + 1]
  ELSE IF st2 # CALIB_IDLE
  THEN [r EXCEPT !.ticks = 1, !.image0 = image, !.reset = FALSE, !.started = TRUE]
  ELSE r

\* the history after calibration_init, which puts the sequencer in Idle
RunAfterInit(r, req) ==
  IF req THEN [r EXCEPT !.ticks = 0, !.image0 = ZeroRecord, !.reset = FALSE,
                        !.disturbed = TRUE,
                        !.earlier = IF r.earlier + r.ticks > MaxEarlier
                                    THEN MaxEarlier ELSE r.earlier + r.ticks]
  ELSE NoRun

\* the history after reset_calibration_to_default called in state st
RunAfterReset(r, st, req) ==
  IF ~req THEN NoRun
  ELSE IF st = CALIB_IDLE THEN [r EXCEPT !.disturbed = TRUE]
  ELSE [r EXCEPT !.disturbed = TRUE, !.reset = TRUE]

Init ==
  /\ calib = ZeroRecord
  /\ calib_state = CALIB_IDLE
  /\ calibration_requested = FALSE
  /\ last_check = <<0, 0>>
  /\ eeprom \in InitialImages
  /\ now = ClockStart
  /\ op = "start"
  /\ prev_state = CALIB_IDLE
  /\ wrote = FALSE
  /\ drifted = FALSE
  /\ result = "none"
  /\ runs = 0
  /\ run = NoRun
  /\ arg = NoInput
  /\ since_reading = 0

\* ------------------------------------------------------------------------
\* Operations
\* ------------------------------------------------------------------------

\* calibration_init()
CalibrationInit ==
  /\ calib' = calibration_init(eeprom)
  /\ calib_state' = CALIB_IDLE
  /\ op' = "init"
  /\ prev_state' = calib_state
  /\ wrote' = FALSE
  /\ drifted' = FALSE
  /\ result' = "none"
  /\ run' = RunAfterInit(CurrentRun, calibration_requested)
  /\ UNCHANGED <<calibration_requested, last_check, eeprom, now, runs, arg, since_reading>>

\* request_calibration()
Request ==
  /\ calib_state = CALIB_IDLE => runs < MaxRuns
  /\ calibration_requested' = request_calibration(calib_state, calibration_requested)
  /\ op' = "request"
  /\ prev_state' = calib_state
  /\ wrote' = FALSE
  /\ drifted' = FALSE
  /\ result' = "none"
  /\ run' = IF calib_state = CALIB_IDLE THEN NewRequest(calib) ELSE CurrentRun
  /\ UNCHANGED <<calib, calib_state, last_check, eeprom, now, runs, arg, since_reading>>

\* calibration_state_machine()
Tick ==
  \E in \in InputsAt(calib_state) :
    \E r \in {calibration_state_machine(calib, calib_state, calibration_requested,
                                        eeprom, now, in)} :
        /\ calib' = r.calib
        /\ calib_state' = r.calib_state
        /\ calibration_requested' = r.calibration_requested
        /\ eeprom' = r.eeprom
        /\ wrote' = r.wrote
        /\ result' = r.result
        /\ op' = "tick"
        /\ prev_state' = calib_state
        /\ drifted' = FALSE
        /\ runs' = IF FirstStart THEN runs + 1 ELSE runs
        /\ run' = RunAfterTick(CurrentRun, calib_state, r.calib_state, eeprom)
        /\ UNCHANGED <<last_check, now, arg, since_reading>>

\* monitor_sensor_drift()
DriftCheck ==
  \E in \in DriftInputs :
    \E m \in {monitor_sensor_drift(calib, last_check, now, in)} :
        /\ calib' = m.calib
        /\ last_check' = m.last_check
        /\ op' = "drift"
        /\ prev_state' = calib_state
        /\ wrote' = FALSE
        /\ drifted' = (m.calib # calib)
        /\ result' = "none"
        /\ run' = CurrentRun
        /\ UNCHANGED <<calib_state, calibration_requested, eeprom, now, runs, arg, since_reading>>

\* calibration_update(): the state machine, then the drift monitor; the
\* calibrator the state machine runs blocks, so the clock may have advanced
\* (elapsed) when the drift monitor reads it
Update ==
  \E in \in InputsAt(calib_state) :
    \E r \in {calibration_state_machine(calib, calib_state, calibration_requested,
                                        eeprom, now, in)} :
      \E din \in DriftInputs, elapsed \in {<<0, 0>>, CLOCK_STEP} :
        \E t \in {U32Add(now, elapsed)} \cap ClockValues :
          \E m \in {monitor_sensor_drift(r.calib, last_check, t, din)} :
              /\ calib' = m.calib
              /\ last_check' = m.last_check
              /\ calib_state' = r.calib_state
              /\ calibration_requested' = r.calibration_requested
              /\ eeprom' = r.eeprom
              /\ wrote' = r.wrote
              /\ result' = r.result
              /\ now' = t
              /\ op' = "update"
              /\ prev_state' = calib_state
              /\ drifted' = (m.calib # r.calib)
              /\ runs' = IF FirstStart THEN runs + 1 ELSE runs
              /\ run' = RunAfterTick(CurrentRun, calib_state, r.calib_state, eeprom)
              /\ UNCHANGED <<arg, since_reading>>

\* reset_calibration_to_default()
Reset ==
  \E r \in {reset_calibration_to_default(calib)} :
      /\ calib' = r.calib
      /\ eeprom' = r.eeprom
      /\ op' = "reset"
      /\ prev_state' = calib_state
      /\ wrote' = TRUE
      /\ drifted' = FALSE
      /\ result' = "none"
      /\ run' = RunAfterReset(CurrentRun, calib_state, calibration_requested)
      /\ UNCHANGED <<calib_state, calibration_requested, last_check, now, runs, arg, since_reading>>

\* time passes between two calls (no operation is called: the history of
\* the last operation stays)
ClockAdvance ==
  /\ U32Add(now, CLOCK_STEP) \in ClockValues
  /\ now' = U32Add(now, CLOCK_STEP)
  /\ UNCHANGED <<calib, calib_state, calibration_requested, last_check, eeprom,
                 op, prev_state, wrote, drifted, result, runs, run, arg,
                 since_reading>>

Next ==
  \/ CalibrationInit
  \/ Request
  \/ Tick
  \/ DriftCheck
  \/ Update
  \/ Reset
  \/ ClockAdvance

Spec == Init /\ [][Next]_vars

\* ------------------------------------------------------------------------
\* The functions called on their own: one call of a calibrator, of the
\* validator, of save followed by load, or of calibration_init, on an input
\* chosen at the start.  arg = [fn, in] names the function and its input.
\* ------------------------------------------------------------------------

CallCases ==
  {[fn |-> "calibrate_odometer", in |-> i] : i \in OdomCases}
    \cup {[fn |-> "calibrate_imu", in |-> i] : i \in ImuCases}
    \cup {[fn |-> "calibrate_lidar", in |-> i] : i \in LidarCases}
    \cup {[fn |-> "calibrate_magnetometer", in |-> i] : i \in MagCases}
    \cup {[fn |-> "validate_calibration", in |-> r] : r \in RecordCases}
    \cup {[fn |-> "save_load", in |-> r] : r \in RecordCases}
    \cup {[fn |-> "calibration_init", in |-> r] : r \in RecordCases \cup {ErasedImage}}

\* functions whose input is the record in RAM
OnRecord == {"validate_calibration", "save_load"}

FnInit ==
  /\ arg \in CallCases
  /\ calib = IF arg.fn \in OnRecord THEN arg.in ELSE DefaultRecord
  /\ eeprom = IF arg.fn = "calibration_init" THEN arg.in ELSE ErasedImage
  /\ calib_state \in IF arg.fn = "calibration_init"
                     THEN {CALIB_IDLE, CALIB_ODOM_RUNNING} ELSE {CALIB_IDLE}
  /\ calibration_requested = (calib_state # CALIB_IDLE)
  /\ last_check = <<0, 0>>
  /\ now = ClockStart
  /\ op = "start"
  /\ prev_state = CALIB_IDLE
  /\ wrote = FALSE
  /\ drifted = FALSE
  /\ result = "none"
  /\ runs = 0
  /\ run = NoRun
  /\ since_reading = 0

\* the call of a calibrator returned r = [ok, calib]
Returned(r) ==
  /\ calib' = r.calib
  /\ result' = IF r.ok THEN "ok" ELSE "fail"
  /\ op' = arg.fn
  /\ UNCHANGED <<calib_state, calibration_requested, last_check, eeprom, now,
                 prev_state, wrote, drifted, runs, run, arg, since_reading>>

CallOdometer ==
  /\ op = "start"
  /\ arg.fn = "calibrate_odometer"
  /\ \E r \in {calibrate_odometer(calib, arg.in)} : Returned(r)

CallImu ==
  /\ op = "start"
  /\ arg.fn = "calibrate_imu"
  /\ \E r \in {calibrate_imu(calib, arg.in)} : Returned(r)

CallLidar ==
  /\ op = "start"
  /\ arg.fn = "calibrate_lidar"
  /\ \E r \in {calibrate_lidar(calib, arg.in)} : Returned(r)

CallMagnetometer ==
  /\ op = "start"
  /\ arg.fn = "calibrate_magnetometer"
  /\ \E r \in {calibrate_magnetometer(calib, arg.in)} : Returned(r)

\* what read_imu_raw returns on a unit at rest that has not drifted since
\* the calibration on the samples of in: the mean of those samples
StillReading(in) ==
  [ok |-> TRUE,
   ax |-> ImuLoop[in].acc_x_sum \div IMU_SAMPLES,
   ay |-> ImuLoop[in].acc_y_sum \div IMU_SAMPLES,
   az |-> ImuLoop[in].acc_z_sum \div IMU_SAMPLES]

\* monitor_sensor_drift(), one interval after a successful calibrate_imu,
\* on a unit that has not moved
CallDriftAtRest ==
  /\ op = "calibrate_imu"
  /\ result = "ok"
  /\ \E t \in {U32Add(now, DRIFT_INTERVAL)} :
       \E m \in {monitor_sensor_drift(calib, last_check, t, StillReading(arg.in))} :
         /\ calib' = m.calib
         /\ last_check' = m.last_check
         /\ now' = t
         /\ drifted' = (m.calib # calib)
         /\ op' = "drift"
         /\ UNCHANGED <<calib_state, calibration_requested, eeprom, prev_state,
                        wrote, result, runs, run, arg, since_reading>>

\* validate_calibration(&calib), on a record chosen at the start or on the
\* record a calibrator has just left
CallValidate ==
  /\ \/ op = "start" /\ arg.fn = "validate_calibration"
     \/ op \in {"calibrate_odometer", "calibrate_imu", "calibrate_lidar",
                "calibrate_magnetometer"}
  /\ \E ok \in {validate_calibration(calib)} :
       /\ result' = IF ok THEN "ok" ELSE "fail"
       /\ op' = "validate_calibration"
       /\ UNCHANGED <<calib, calib_state, calibration_requested, last_check, eeprom,
                      now, prev_state, wrote, drifted, runs, run, arg, since_reading>>

\* save_calibration_to_eeprom(&calib); load_calibration_from_eeprom(&calib)
CallSaveLoad ==
  /\ op = "start"
  /\ arg.fn = "save_load"
  /\ \E image \in {save_calibration_to_eeprom(calib)} :
       /\ eeprom' = image
       /\ calib' = load_calibration_from_eeprom(image)
       /\ wrote' = TRUE
       /\ op' = "save_load"
       /\ UNCHANGED <<calib_state, calibration_requested, last_check, now,
                      prev_state, drifted, result, runs, run, arg, since_reading>>

\* calibration_init() on the stored image chosen at the start
CallInit ==
  /\ op = "start"
  /\ arg.fn = "calibration_init"
  /\ CalibrationInit

FnNext ==
  \/ CallOdometer
  \/ CallImu
  \/ CallLidar
  \/ CallMagnetometer
  \/ CallDriftAtRest
  \/ CallValidate
  \/ CallSaveLoad
  \/ CallInit

FnSpec == FnInit /\ [][FnNext]_vars

\* ------------------------------------------------------------------------
\* The drift monitor called on its own, against a clock that wraps
\* ------------------------------------------------------------------------

\* half of the interval of the drift monitor: 1,800,000 ms
HALF_INTERVAL == <<27, 30528>>

\* a quarter of the range of get_time_ms: 2^30 ms
QUARTER_RANGE == <<16384, 0>>

\* times around a quarter of the range: an interval and half an interval
\* before it, the quarter itself, and up to an interval and a half after it
AroundQuarter ==
  { U32Sub(<<0, 0>>, DRIFT_INTERVAL), U32Sub(<<0, 0>>, HALF_INTERVAL),
    <<0, 0>>, HALF_INTERVAL, DRIFT_INTERVAL,
    U32Add(DRIFT_INTERVAL, HALF_INTERVAL) }

\* values of get_time_ms: the times around each quarter of its range
DriftClock ==
  { U32Add(<<(k * QUARTER_RANGE[1]) % W16, 0>>, off) :
      k \in 0..3, off \in AroundQuarter }

\* long waits between two calls: a quarter of the range, and a quarter less
\* one interval
LongWaits == {QUARTER_RANGE, U32Sub(QUARTER_RANGE, DRIFT_INTERVAL)}

\* time since the last reading is counted up to two intervals
SinceCap == 7200000

\* records the monitor compares against: the defaults, a calibrated
\* record, and one already marked for recalibration
DriftRecords ==
  { DefaultRecord,
    [DefaultRecord EXCEPT !.imu_bias_x = 10, !.imu_bias_y = -20,
                          !.imu_bias_z = 30, !.status = CALIB_VALID],
    [DefaultRecord EXCEPT !.imu_bias_x = 10, !.imu_bias_y = -20,
                          !.imu_bias_z = 30,
                          !.status = CALIB_NEEDS_RECALIBRATION] }

\* results of read_imu_raw in the monitor: a failed read; readings equal to
\* the calibrated bias, 2.00 and 2.01 off it on one axis; a unit at rest
\* (gravity on z)
DriftCases ==
  { [ok |-> FALSE, ax |-> 0, ay |-> 0, az |-> 0],
    [ok |-> TRUE, ax |-> 10, ay |-> -20, az |-> 30],
    [ok |-> TRUE, ax |-> 10, ay |-> -20, az |-> 230],
    [ok |-> TRUE, ax |-> 10, ay |-> -20, az |-> 231],
    [ok |-> TRUE, ax |-> 211, ay |-> -20, az |-> 30],
    [ok |-> TRUE, ax |-> 10, ay |-> -221, az |-> 30],
    [ok |-> TRUE, ax |-> 10, ay |-> -20, az |-> 1011] }

DriftInit ==
  /\ calib \in DriftRecords
  /\ calib_state \in {CALIB_IDLE, CALIB_MAG_INIT}
  /\ calibration_requested = (calib_state # CALIB_IDLE)
  /\ last_check = <<0, 0>>
  /\ eeprom = WornImage
  /\ now = <<0, 0>>
  /\ op = "start"
  /\ prev_state = calib_state
  /\ wrote = FALSE
  /\ drifted = FALSE
  /\ result = "none"
  /\ runs = 0
  /\ run = NoRun
  /\ arg = NoInput
  /\ since_reading = 0

\* monitor_sensor_drift(); the sensor is read only by an eligible call
DriftCall ==
  \E in \in IF DriftEligible(last_check, now) THEN DriftCases ELSE {NoInput} :
    \E m \in {monitor_sensor_drift(calib, last_check, now, in)} :
      /\ calib' = m.calib
      /\ last_check' = m.last_check
      /\ arg' = in
      /\ op' = "drift"
      /\ drifted' = (m.calib # calib)
      /\ result' = IF ~DriftEligible(last_check, now) THEN "none"
                   ELSE IF in.ok THEN "ok" ELSE "fail"
      /\ since_reading' = IF DriftEligible(last_check, now) THEN 0
                          ELSE since_reading
      /\ UNCHANGED <<calib_state, calibration_requested, eeprom, now,
                     prev_state, wrote, runs, run>>

\* half an interval passes
ShortWait ==
  /\ U32Add(now, HALF_INTERVAL) \in DriftClock
  /\ now' = U32Add(now, HALF_INTERVAL)
  /\ since_reading' = IF since_reading + 1800000 > SinceCap THEN SinceCap
                      ELSE since_reading + 1800000
  /\ UNCHANGED <<calib, calib_state, calibration_requested, last_check, eeprom,
                 op, prev_state, wrote, drifted, result, runs, run, arg>>

\* weeks pass
LongWait ==
  \E d \in LongWaits :
    /\ U32Add(now, d) \in DriftClock
    /\ now' = U32Add(now, d)
    /\ since_reading' = SinceCap
    /\ UNCHANGED <<calib, calib_state, calibration_requested, last_check, eeprom,
                   op, prev_state, wrote, drifted, result, runs, run, arg>>

DriftNext ==
  \/ DriftCall
  \/ ShortWait
  \/ LongWait

DriftSpec == DriftInit /\ [][DriftNext]_vars

\* ------------------------------------------------------------------------
\* Properties
\* ------------------------------------------------------------------------

\* a call of the state machine, alone or from calibration_update
StateMachineCall == Tick \/ Update

\* the order of the states of a successful run
StageOrder ==
  <<CALIB_IDLE,
    CALIB_IMU_INIT, CALIB_IMU_RUNNING,
    CALIB_MAG_INIT, CALIB_MAG_RUNNING,
    CALIB_ODOM_INIT, CALIB_ODOM_RUNNING,
    CALIB_LIDAR_INIT, CALIB_LIDAR_RUNNING,
    CALIB_CAMERA_INIT, CALIB_CAMERA_RUNNING,
    CALIB_BATTERY_INIT, CALIB_BATTERY_RUNNING,
    CALIB_TEMP_INIT, CALIB_TEMP_RUNNING,
    CALIB_VALIDATE, CALIB_COMPLETE>>

Successor(st) ==
  LET i == CHOOSE k \in 1..(Len(StageOrder) - 1) : StageOrder[k] = st
  IN  StageOrder[i + 1]

\* the states one call may take the sequencer to from st
AllowedAfter(st, req) ==
  CASE st = CALIB_IDLE -> IF req THEN {CALIB_IMU_INIT} ELSE {CALIB_IDLE}
    [] st \in InitStates -> {Successor(st)}
    [] st \in RunningStates -> {Successor(st), CALIB_ERROR}
    [] st = CALIB_VALIDATE -> {CALIB_COMPLETE, CALIB_ERROR}
    [] st \in {CALIB_COMPLETE, CALIB_ERROR} -> {CALIB_IDLE}

\* C1: every call of the state machine makes at most one transition, and
\* the transition is the one of the table: Idle leaves for ImuInit only
\* with the flag set; an Init state goes to its Running state; a Running
\* state goes to the next sensor's Init (Validate after Temp) on success
\* and to Error on failure; Validate goes to Complete or Error; Complete
\* and Error go to Idle. The sensors come in the order IMU, magnetometer,
\* odometer, LIDAR, camera, battery, temperature.
C1_LinearSequence ==
  [][StateMachineCall =>
       /\ calib_state' \in AllowedAfter(calib_state, calibration_requested)
       /\ result' = "ok" => calib_state' = Successor(calib_state)
       /\ result' = "fail" => calib_state' = CALIB_ERROR]_vars

\* the temperature stage, run at the 15th call, hands over to Validate
C1_Witness ==
  /\ op = "tick"
  /\ prev_state = CALIB_TEMP_RUNNING
  /\ calib_state = CALIB_VALIDATE
  /\ run.ticks = 15

\* the state after k calls of a run that has not failed is the k-th of
\* the order
C2_TickCount ==
  (calib_state \notin {CALIB_IDLE, CALIB_ERROR}) =>
     /\ run.ticks \in 1..(Len(StageOrder) - 1)
     /\ calib_state = StageOrder[run.ticks + 1]

\* the call made in Complete, the 17th of the run
C2_CompleteStep ==
  (StateMachineCall /\ calib_state = CALIB_COMPLETE) =>
     /\ run.ticks = 16 /\ run'.ticks = 17
     /\ calib_state' = CALIB_IDLE
     /\ ~calibration_requested'
     /\ wrote'
     /\ eeprom'.status = CALIB_VALID
     /\ Tick => (calib'.status = CALIB_VALID /\ eeprom' = calib')
     /\ ~run.disturbed =>
          /\ calib'.calibration_count = (run.count0 + 1) % W16
          /\ eeprom'.calibration_count = (run.count0 + 1) % W16

\* C2 (as amended): a request made in Idle followed by calls that all
\* succeed reaches Complete after exactly 16 calls; the 17th call returns
\* to Idle with the request flag cleared, the status Valid, the record
\* written to the store, and the run counter one higher, modulo 2^16, than
\* when the request was made.
C2_RunToComplete == []C2_TickCount /\ [][C2_CompleteStep]_vars

\* C2 as stated: the run counter is one higher than before the request
C2_AsStated ==
  [][(StateMachineCall /\ calib_state = CALIB_COMPLETE /\ ~run.disturbed) =>
       calib'.calibration_count = run.count0 + 1]_vars

\* a run that came back to Idle at its 17th call with the counter raised
C2_Witness ==
  /\ op = "tick"
  /\ prev_state = CALIB_COMPLETE
  /\ calib_state = CALIB_IDLE
  /\ run.ticks = 17
  /\ ~run.disturbed
  /\ ~calibration_requested
  /\ calib.status = CALIB_VALID
  /\ calib.calibration_count = run.count0 + 1
  /\ eeprom = calib

\* C3: a calibrator that reports failure sends the sequencer to Error at
\* that call and nothing is written to the store; the next call runs no
\* stage, writes nothing, returns to Idle and clears the request flag.
C3_FailureAborts ==
  [][StateMachineCall =>
       /\ (calib_state \in RunningStates /\ result' = "fail") =>
            (calib_state' = CALIB_ERROR /\ ~wrote' /\ eeprom' = eeprom)
       /\ calib_state = CALIB_ERROR =>
            /\ result' = "none"
            /\ calib_state' = CALIB_IDLE
            /\ ~calibration_requested'
            /\ ~wrote'
            /\ eeprom' = eeprom]_vars

\* the LIDAR calibrator failed at the 9th call; the 10th ended the run
C3_Witness ==
  /\ op = "tick"
  /\ prev_state = CALIB_ERROR
  /\ calib_state = CALIB_IDLE
  /\ run.ticks = 10
  /\ ~calibration_requested
  /\ ~wrote

\* C4: when a run ends through Error (a calibrator failed or the validator
\* rejected the record), the stored image is the one of before the run,
\* provided reset_calibration_to_default was not called during the run.
C4_FailedRunKeepsStore ==
  [][(StateMachineCall /\ calib_state = CALIB_ERROR /\ ~run.reset) =>
       eeprom' = run.image0]_vars

\* the validator rejected the record at the 16th call: the record in RAM
\* holds the new values, the store still holds the old image
C4_Witness ==
  /\ op = "tick"
  /\ prev_state = CALIB_ERROR
  /\ calib_state = CALIB_IDLE
  /\ run.ticks = 17
  /\ ~run.reset
  /\ eeprom = run.image0
  /\ eeprom.status = CALIB_VALID
  /\ calib.pulses_per_meter_left # eeprom.pulses_per_meter_left

\* C5: the store changes only in a call made in Complete and in
\* reset_calibration_to_default; no calibrator, validator or Init state
\* writes it.
C5_WritersOfStore ==
  /\ [](wrote => \/ op = "reset"
                 \/ (op \in {"tick", "update"} /\ prev_state = CALIB_COMPLETE))
  /\ [][eeprom' # eeprom =>
          \/ Reset
          \/ (StateMachineCall /\ calib_state = CALIB_COMPLETE)]_vars

\* calibration_update wrote the store from Complete
C5_Witness ==
  /\ op = "update"
  /\ prev_state = CALIB_COMPLETE
  /\ wrote
  /\ eeprom.calibration_count = 1

\* the steps that may take the status to Valid
BecomesValidBy ==
  \/ StateMachineCall /\ calib_state = CALIB_COMPLETE
  \/ /\ CalibrationInit
     /\ eeprom.status = CALIB_VALID
     /\ eeprom.magic = CALIB_MAGIC

\* C6 (as amended): the status of the record in RAM becomes Valid only in
\* the call made in Complete, which a run reaches only after its seven
\* stages and its validation, or when calibration_init loads a stored
\* image whose status is Valid and whose magic matches; the drift check,
\* request and reset_calibration_to_default never make it Valid.
C6_BecomesValid ==
  /\ [](calib_state = CALIB_COMPLETE => run.ticks = 16)
  /\ [][(calib_state # CALIB_COMPLETE /\ calib_state' = CALIB_COMPLETE) =>
          (StateMachineCall /\ calib_state = CALIB_VALIDATE /\ result' = "ok")]_vars
  /\ [][(calib.status # CALIB_VALID /\ calib'.status = CALIB_VALID) =>
          BecomesValidBy]_vars

\* C6 as stated: the status becomes Valid only in the call made in Complete
C6_AsStated ==
  [][(calib.status # CALIB_VALID /\ calib'.status = CALIB_VALID) =>
       (StateMachineCall /\ calib_state = CALIB_COMPLETE)]_vars

\* before any run, calibration_init made the record Valid from the store
C6_Witness ==
  /\ op = "init"
  /\ runs = 0
  /\ calib.status = CALIB_VALID
  /\ calib = eeprom

\* C7: request_calibration called outside Idle changes neither the state,
\* the request flag, the record nor the store, and the flag is clear when
\* the run ends, so no second run follows; called in Idle it sets the flag
\* and changes nothing else.
C7_Request ==
  /\ [][Request =>
          /\ UNCHANGED <<calib_state, calib, eeprom, last_check>>
          /\ calib_state # CALIB_IDLE => UNCHANGED calibration_requested
          /\ calib_state = CALIB_IDLE => calibration_requested']_vars
  /\ []((op \in {"tick", "update"} /\ prev_state \in {CALIB_COMPLETE, CALIB_ERROR}) =>
          (calib_state = CALIB_IDLE /\ ~calibration_requested))

\* a request made while the magnetometer stage is due
C7_Witness ==
  /\ op = "request"
  /\ calib_state = CALIB_MAG_RUNNING
  /\ prev_state = CALIB_MAG_RUNNING
  /\ calibration_requested
  /\ run.ticks = 4

\* C8 as stated: a call whose calibrator reports failure leaves every
\* field of the record in RAM as it was.
C8_FailureLeavesRecord ==
  [][(Tick /\ calib_state \in RunningStates /\ result' = "fail") =>
       calib' = calib]_vars

\* the record the call made in Complete leaves, except for the counter
CompleteExceptCount(c, t) == [c EXCEPT !.status = CALIB_VALID, !.timestamp = t]

\* C9 (as amended): the call made in Complete sets the status Valid, the
\* run counter one higher modulo 2^16 (65535 is followed by 0) and the
\* timestamp to the clock value, changes no other field, writes the record
\* to the store after these updates, and leaves the sequencer Idle with
\* the request flag cleared.
C9_CompleteStep ==
  [][(StateMachineCall /\ calib_state = CALIB_COMPLETE) =>
       /\ eeprom' = [CompleteExceptCount(calib, now) EXCEPT
                       !.calibration_count = (calib.calibration_count + 1) % W16]
       /\ Tick => calib' = eeprom'
       /\ wrote'
       /\ calib_state' = CALIB_IDLE
       /\ ~calibration_requested']_vars

\* C9 as stated: the run counter is exactly one more than before
C9_AsStated ==
  [][(StateMachineCall /\ calib_state = CALIB_COMPLETE) =>
       eeprom' = [CompleteExceptCount(calib, now) EXCEPT
                    !.calibration_count = calib.calibration_count + 1]]_vars

\* the store after the call made in Complete at the later clock value
C9_Witness ==
  /\ op = "tick"
  /\ prev_state = CALIB_COMPLETE
  /\ wrote
  /\ eeprom = calib
  /\ eeprom.status = CALIB_VALID
  /\ eeprom.timestamp = now
  /\ now # ClockStart
  /\ eeprom.calibration_count = 1

\* the steps that may take the status away from Invalid
LeavesInvalidBy ==
  \/ calib'.status = CALIB_NEEDS_RECALIBRATION /\ (DriftCheck \/ Update) /\ drifted'
  \/ calib'.status = CALIB_VALID /\ BecomesValidBy

\* C10 (as amended): the call made in Error sets the status Invalid and
\* leaves the sequencer Idle; when the calibration_update that made it
\* returns, the status is Invalid unless the drift check of that same
\* update found drift, and then it is NeedsRecalibration. The status stays
\* Invalid until a drift check finds drift, calibration_init loads a Valid
\* image, or the call made in Complete of a later run.
C10_StatusAfterFailure ==
  [][/\ (StateMachineCall /\ calib_state = CALIB_ERROR) =>
          /\ calib_state' = CALIB_IDLE
          /\ Tick => calib'.status = CALIB_INVALID
          /\ Update => calib'.status =
                         IF drifted' THEN CALIB_NEEDS_RECALIBRATION ELSE CALIB_INVALID
     /\ (calib.status = CALIB_INVALID /\ calib'.status # CALIB_INVALID) =>
          LeavesInvalidBy]_vars

\* C10 as stated: calibration_update called in Error returns with the
\* sequencer Idle and the status Invalid.
C10_AsStated ==
  [][(Update /\ calib_state = CALIB_ERROR) =>
       (calib_state' = CALIB_IDLE /\ calib'.status = CALIB_INVALID)]_vars

\* calibration_update handled Error and its drift check found drift
C10_Witness ==
  /\ op = "update"
  /\ prev_state = CALIB_ERROR
  /\ calib_state = CALIB_IDLE
  /\ drifted
  /\ calib.status = CALIB_NEEDS_RECALIBRATION

\* C11 as stated: a call of the state machine leaves Idle only with a
\* request pending, and each accepted request (or group of requests made
\* while Idle) starts one run only; once a run has ended the sequencer
\* stays Idle until the next request, and no drift check starts a run.
C11_OneRunPerRequest ==
  [][/\ (StateMachineCall /\ calib_state = CALIB_IDLE /\ calib_state' # CALIB_IDLE) =>
          (calibration_requested /\ ~CurrentRun.started)
     /\ (calib_state = CALIB_IDLE /\ calib_state' # CALIB_IDLE) => StateMachineCall
     /\ (~calibration_requested /\ calibration_requested') =>
          (Request /\ calib_state = CALIB_IDLE)]_vars

\* the default record, field by field
DefaultValues ==
  [ magic |-> <<51966, 47806>>,
    imu_bias_x |-> 0, imu_bias_y |-> 0, imu_bias_z |-> 0,
    imu_scale_x |-> 100, imu_scale_y |-> 100, imu_scale_z |-> 100,
    mag_offset_x |-> 0, mag_offset_y |-> 0, mag_offset_z |-> 0,
    mag_scale_x |-> 100, mag_scale_y |-> 100, mag_scale_z |-> 100,
    pulses_per_meter_left |-> 1000, pulses_per_meter_right |-> 1000,
    lidar_offset_distance |-> 0, lidar_angle_offset |-> 0,
    camera_focal_length |-> 50000,
    camera_principal_point_x |-> 32000, camera_principal_point_y |-> 24000,
    camera_distortion_k1 |-> 0, camera_distortion_k2 |-> 0,
    battery_voltage_offset |-> 0, battery_voltage_scale |-> 100,
    temp_offset |-> 0,
    timestamp |-> <<0, 0>>, calibration_count |-> 0, status |-> 0 ]

\* C12: reset_calibration_to_default, in any state of the sequencer, makes
\* the record in RAM the default record (magic, zero offsets, unit scales,
\* 1000 pulses per meter, nominal camera, timestamp 0, counter 0, status
\* Invalid), makes the stored image that same record, and leaves the state
\* and the request flag as they were.
C12_ResetToDefault ==
  [][Reset =>
       /\ calib' = DefaultValues
       /\ eeprom' = DefaultValues
       /\ UNCHANGED <<calib_state, calibration_requested>>]_vars

\* a reset in the middle of a run that began with the counter at 65535
C12_Witness ==
  /\ op = "reset"
  /\ calib_state = CALIB_ODOM_RUNNING
  /\ calibration_requested
  /\ run.count0 = 65535
  /\ calib = eeprom
  /\ calib.calibration_count = 0
  /\ calib.status = CALIB_INVALID

\* the stored image the loader accepts
Loadable(image) == image.magic = <<51966, 47806>> /\ image.status = 1

\* C13: saving a record whose magic is the constant and whose status is
\* Valid and loading it again gives the saved record in every field, and
\* the stored image is the saved record after the load.
C13_RoundTrip ==
  [][(CallSaveLoad /\ Loadable(calib)) => (calib' = calib /\ eeprom' = calib)]_vars

\* a Valid record with the largest counter and a ranging offset of -50 m,
\* saved and loaded
C13_Witness ==
  /\ op = "save_load"
  /\ wrote
  /\ calib = arg.in
  /\ eeprom = arg.in
  /\ calib.status = CALIB_VALID
  /\ calib.magic = CALIB_MAGIC
  /\ calib.calibration_count = 65535
  /\ calib.lidar_offset_distance = -5000

\* C14: calibration_init, and any load, leaves in RAM the stored image when
\* its magic is the constant and its status Valid, and otherwise the default
\* record (status Invalid); the stored image is not touched.  After
\* calibration_init the sequencer is Idle and the magic in RAM is the
\* constant.
C14_LoadOrDefault ==
  [][/\ CallInit =>
          /\ calib' = IF Loadable(eeprom) THEN eeprom ELSE DefaultValues
          /\ eeprom' = eeprom
          /\ calib_state' = CALIB_IDLE
          /\ calib'.magic = <<51966, 47806>>
     /\ CallSaveLoad =>
          /\ calib' = IF Loadable(calib) THEN calib ELSE DefaultValues
          /\ eeprom' = calib]_vars

\* calibration_init, called in the middle of a run, found a Valid image
\* with a wrong magic
C14_Witness ==
  /\ op = "init"
  /\ prev_state = CALIB_ODOM_RUNNING
  /\ calib_state = CALIB_IDLE
  /\ eeprom.status = CALIB_VALID
  /\ eeprom.magic = <<51966, 47807>>
  /\ calib = DefaultRecord

\* an encoder count below 2^16 as a number
CountOf(p) == p[2]

\* |left - right| / ((left + right) / 2) > 0.15 on numbers
MismatchAbove15(l, r) ==
  40 * (IF l >= r THEN l - r ELSE r - l) > 3 * (l + r)

\* C15 as stated: after a successful move the odometry stage fails exactly
\* when |left - right| / ((left + right) / 2) > 0.15, whichever count is
\* the larger, and it fails when the move fails; on success the pulses per
\* meter are the two counts.
C15_OdometerVerdict ==
  [][CallOdometer =>
       /\ (result' = "fail") <=>
            \/ ~arg.in.move_ok
            \/ MismatchAbove15(CountOf(arg.in.left), CountOf(arg.in.right))
       /\ result' = "ok" =>
            /\ calib'.pulses_per_meter_left = CountOf(arg.in.left)
            /\ calib'.pulses_per_meter_right = CountOf(arg.in.right)]_vars

\* a wider-than-closed range test: v is a number and lo <= v <= hi
Within(v, lo, hi) == v # NaN /\ lo <= v /\ v <= hi

\* every range the validator is to enforce
InRanges(c) ==
  /\ c.magic = <<51966, 47806>>
  /\ Within(c.imu_bias_x, -500, 500)
  /\ Within(c.imu_bias_y, -500, 500)
  /\ Within(c.imu_bias_z, -500, 500)
  /\ Within(c.imu_scale_x, 50, 200)
  /\ Within(c.imu_scale_y, 50, 200)
  /\ Within(c.imu_scale_z, 50, 200)
  /\ Within(c.mag_scale_x, 50, 200)
  /\ Within(c.mag_scale_y, 50, 200)
  /\ Within(c.mag_scale_z, 50, 200)
  /\ Within(c.pulses_per_meter_left, 500, 2000)
  /\ Within(c.pulses_per_meter_right, 500, 2000)
  /\ Within(c.camera_focal_length, 10000, 100000)

\* C16 as stated: the validator passes exactly when the magic is the
\* constant, every inertial bias has magnitude <= 5.0, every inertial and
\* magnetic scale lies in [0.5, 2.0], both pulses per meter lie in
\* [500, 2000] and the focal length lies in [100, 1000]; the ranging offset
\* has no influence and the record is not changed.
C16_ValidatorExact ==
  [][CallValidate =>
       /\ (result' = "ok") <=> InRanges(calib)
       /\ calib' = calib]_vars

\* the mean of a sample sequence that alternates p[1], p[2] over an even
\* number of samples
MeanOf(p) == (p[1] + p[2]) \div 2

\* the population standard deviation of such a sequence is |p[1] - p[2]| / 2:
\* it is <= 0.5 when the two values are at most 1.0 apart
SpreadWithin(p) == p[1] - p[2] <= 100 /\ p[2] - p[1] <= 100

\* C19: the ranging stage fails only when one of its 50 readings is
\* negative, and then leaves the record alone; otherwise it succeeds and
\* stores offset = 1.000 - sample mean, whatever the offset or the noise;
\* the validator passes the record the stage leaves, and a passing
\* validation takes the sequencer to Complete.
C19_RangingOnlyFailsOnRead ==
  [][/\ CallLidar =>
          /\ (result' = "fail") <=> (arg.in.neg_at \in 1..50)
          /\ result' = "fail" => calib' = calib
          /\ result' = "ok" =>
               calib' = [calib EXCEPT
                           !.lidar_offset_distance = 100 - MeanOf(arg.in.d)]
     /\ (CallValidate /\ op = "calibrate_lidar") =>
          /\ result' = "ok"
          /\ StateAfter(CALIB_VALIDATE, TRUE, TRUE) = CALIB_COMPLETE]_vars

\* C19 witness: a target at 10 m gave the offset -9.0 and the validator
\* passed the record
C19_Witness ==
  /\ op = "validate_calibration"
  /\ arg.fn = "calibrate_lidar"
  /\ arg.in.neg_at = 0
  /\ calib.lidar_offset_distance = -900
  /\ result = "ok"

\* C20: the inertial stage succeeds exactly when all 100 reads succeed and
\* the standard deviation is <= 0.5 on every axis; on success the bias is
\* the sample mean per axis, less 9.81 on the vertical axis, and the three
\* scales are 1.0.
C20_InertialStage ==
  [][CallImu =>
       /\ (result' = "ok") <=>
            /\ arg.in.fail_at = 0
            /\ SpreadWithin(arg.in.ax)
            /\ SpreadWithin(arg.in.ay)
            /\ SpreadWithin(arg.in.az)
       /\ result' = "ok" =>
            calib' = [calib EXCEPT !.imu_bias_x = MeanOf(arg.in.ax),
                                   !.imu_bias_y = MeanOf(arg.in.ay),
                                   !.imu_bias_z = MeanOf(arg.in.az) - 981,
                                   !.imu_scale_x = 100,
                                   !.imu_scale_y = 100,
                                   !.imu_scale_z = 100]]_vars

\* C20 witness: 100 identical samples (-3.00, 2.50, 4.81) gave the bias
\* (-3.00, 2.50, -5.00)
C20_Witness ==
  /\ op = "calibrate_imu"
  /\ result = "ok"
  /\ arg.in.ax = <<-300, -300>>
  /\ calib.imu_bias_x = -300
  /\ calib.imu_bias_y = 250
  /\ calib.imu_bias_z = -500

\* now - last_check in 32-bit unsigned arithmetic is at least 3,600,000
IntervalElapsed == ~U32Lt(U32Sub(now, last_check), <<54, 61056>>)

\* the reading r is more than 2.0 away from the stored bias b
OffBy2(r, b) == r - b > 200 \/ b - r > 200

\* C17: a drift check sets the status to NeedsRecalibration exactly when it
\* is eligible, its read succeeds and some axis is more than 2.0 away from
\* the stored bias; it changes nothing else of the record, nor the
\* sequencer state, the pending-request flag or the stored image, and a
\* status of NeedsRecalibration stays.
C17_DriftOnlyFlags ==
  [][DriftCall =>
       /\ calib' =
            IF /\ IntervalElapsed
               /\ arg'.ok
               /\ \/ OffBy2(arg'.ax, calib.imu_bias_x)
                  \/ OffBy2(arg'.ay, calib.imu_bias_y)
                  \/ OffBy2(arg'.az, calib.imu_bias_z)
            THEN [calib EXCEPT !.status = 2]
            ELSE calib
       /\ calib.status = 2 => calib'.status = 2
       /\ UNCHANGED <<calib_state, calibration_requested, eeprom>>]_vars

\* C17 witness: during a run, a reading 2.01 off the stored bias on the z
\* axis alone marked a Valid record
C17_Witness ==
  /\ op = "drift"
  /\ drifted
  /\ arg = [ok |-> TRUE, ax |-> 10, ay |-> -20, az |-> 231]
  /\ calib.status = CALIB_NEEDS_RECALIBRATION
  /\ calib.imu_bias_z = 30
  /\ calib_state = CALIB_MAG_INIT
  /\ calibration_requested

\* C18: the monitor reads the sensor only when now - last_check, in 32-bit
\* unsigned arithmetic, is at least 3,600,000 ms, with last_check starting
\* at 0; a call made sooner changes nothing; every eligible call sets
\* last_check to now, also when the read fails, so at least one hour has
\* passed between two readings.
C18_HourlyReadings ==
  /\ [][DriftCall =>
          /\ (arg' # NoInput) <=> IntervalElapsed
          /\ IntervalElapsed => (last_check' = now /\ since_reading >= 3600000)
          /\ ~IntervalElapsed => UNCHANGED <<calib, last_check>>]_vars
  /\ (last_check = <<0, 0>>) /\ [][last_check' # last_check => DriftCall]_vars

\* C18 witness: half an interval after the clock wrapped, an eligible call
\* whose read failed set last_check to now
C18_Witness ==
  /\ op = "drift"
  /\ result = "fail"
  /\ last_check = HALF_INTERVAL
  /\ now = HALF_INTERVAL
  /\ since_reading = 0

\* the largest and the smallest value of axis k over the samples of a sweep
AxisMax(samples, k) ==
  CHOOSE v \in {samples[i][k] : i \in DOMAIN samples} :
    \A i \in DOMAIN samples : samples[i][k] <= v

AxisMin(samples, k) ==
  CHOOSE v \in {samples[i][k] : i \in DOMAIN samples} :
    \A i \in DOMAIN samples : samples[i][k] >= v

\* twice the half-range of axis k
Swing(samples, k) == AxisMax(samples, k) - AxisMin(samples, k)

\* scale (in hundredths) is the quotient mean half-range / half-range of an
\* axis with the given swing, to within one hundredth; the mean half-range
\* is total / 6 for the total of the three swings
IsScaleOf(scale, total, swing) ==
  /\ swing # 0
  /\ scale # NaN
  /\ 6 * swing * scale <= 2 * total * 100 + 6 * swing
  /\ 6 * swing * scale >= 2 * total * 100 - 6 * swing

\* C21 as stated: a sweep in which every read succeeds stores, per axis,
\* the offset (max + min) / 2 and the scale (mean of the three half-ranges)
\* / (half-range of the axis); with three equal half-ranges the three
\* scales are 1.0; a failed read fails the stage.
C21_MagnetometerScales ==
  [][CallMagnetometer =>
       LET s == arg.in.samples
           total == Swing(s, 1) + Swing(s, 2) + Swing(s, 3)
       IN  /\ (result' = "fail") <=> (arg.in.fail_at # 0)
           /\ result' = "ok" =>
                /\ calib'.mag_offset_x = (AxisMax(s, 1) + AxisMin(s, 1)) \div 2
                /\ calib'.mag_offset_y = (AxisMax(s, 2) + AxisMin(s, 2)) \div 2
                /\ calib'.mag_offset_z = (AxisMax(s, 3) + AxisMin(s, 3)) \div 2
                /\ IsScaleOf(calib'.mag_scale_x, total, Swing(s, 1))
                /\ IsScaleOf(calib'.mag_scale_y, total, Swing(s, 2))
                /\ IsScaleOf(calib'.mag_scale_z, total, Swing(s, 3))
                /\ (Swing(s, 1) = Swing(s, 2) /\ Swing(s, 2) = Swing(s, 3)) =>
                     /\ calib'.mag_scale_x = 100
                     /\ calib'.mag_scale_y = 100
                     /\ calib'.mag_scale_z = 100]_vars

\* calls of the state machine made for the pending request, at least
CallsSoFar == CurrentRun.earlier + CurrentRun.ticks

\* C22 as stated: once a request is accepted in Idle, 17 calls of the state
\* machine at most bring the sequencer back to Idle with the request flag
\* cleared, whatever the calibrators and the validator return: while the
\* request is pending fewer than 17 calls have been made for it.
C22_SeventeenTicks == calibration_requested => CallsSoFar < 17

\* C23: whenever the sequencer is not in Idle the pending-request flag is
\* set; only a call of the state machine made in Complete or Error clears
\* the flag; the sequencer leaves Idle only with the flag set, and the flag
\* is set only by request_calibration called in Idle.
C23_FlagGuardsRun ==
  /\ [](calib_state # CALIB_IDLE => calibration_requested)
  /\ [][/\ (calibration_requested /\ ~calibration_requested') =>
              /\ StateMachineCall
              /\ calib_state \in {CALIB_COMPLETE, CALIB_ERROR}
        /\ (calib_state = CALIB_IDLE /\ calib_state' # CALIB_IDLE) =>
              calibration_requested
        /\ (~calibration_requested /\ calibration_requested') =>
              (Request /\ calib_state = CALIB_IDLE)]_vars

\* C23 witness: the call made in Error cleared the flag of a run that had
\* been started by a request
C23_Witness ==
  /\ op = "tick"
  /\ prev_state = CALIB_ERROR
  /\ calib_state = CALIB_IDLE
  /\ ~calibration_requested
  /\ runs = 1

\* C24 as stated: a stored image whose status is Valid has the constant
\* magic, inertial biases of magnitude <= 5.0, inertial and magnetic scales
\* in [0.5, 2.0], pulses per meter in [500, 2000] and a focal length in
\* [100, 1000]; the stored status is never NeedsRecalibration.
C24_StoredValidInRanges ==
  /\ eeprom.status = 1 => InRanges(eeprom)
  /\ eeprom.status # 2

\* is_calibration_valid()
is_calibration_valid(c) == c.status = CALIB_VALID

\* C25 as stated: in every state, also in the middle of a run started
\* while the status was Valid, a record for which is_calibration_valid
\* returns true passes every range check of the validator.
C25_ValidMeansInRange ==
  is_calibration_valid(calib) => validate_calibration(calib)

\* the inertial, magnetic, odometry and ranging coefficients of c are
\* values a successful stage of a run derives from its readings
DerivedImu(c) ==
  \E in \in ImuInputs : \E r \in {calibrate_imu(DefaultRecord, in)} :
    /\ r.ok
    /\ c.imu_bias_x = r.calib.imu_bias_x
    /\ c.imu_bias_y = r.calib.imu_bias_y
    /\ c.imu_bias_z = r.calib.imu_bias_z

DerivedMag(c) ==
  \E in \in MagInputs : \E r \in {calibrate_magnetometer(DefaultRecord, in)} :
    /\ r.ok
    /\ c.mag_offset_x = r.calib.mag_offset_x
    /\ c.mag_offset_y = r.calib.mag_offset_y
    /\ c.mag_offset_z = r.calib.mag_offset_z
    /\ c.mag_scale_x = r.calib.mag_scale_x
    /\ c.mag_scale_y = r.calib.mag_scale_y
    /\ c.mag_scale_z = r.calib.mag_scale_z

DerivedOdom(c) ==
  \E in \in OdomInputs : \E r \in {calibrate_odometer(DefaultRecord, in)} :
    /\ r.ok
    /\ c.pulses_per_meter_left = r.calib.pulses_per_meter_left
    /\ c.pulses_per_meter_right = r.calib.pulses_per_meter_right

DerivedLidar(c) ==
  \E in \in LidarInputs : \E r \in {calibrate_lidar(DefaultRecord, in)} :
    /\ r.ok
    /\ c.lidar_offset_distance = r.calib.lidar_offset_distance

\* C26 as stated: whatever resets and drift checks come between the calls
\* of a run, the record its Complete step stores holds the coefficients its
\* calibrators derived, and a run counter one more than when the run was
\* requested.
C26_CompleteStoresDerived ==
  [][(/\ StateMachineCall
      /\ calib_state = CALIB_COMPLETE
      /\ (run.reset \/ ~run.disturbed)) =>
       /\ DerivedImu(eeprom')
       /\ DerivedMag(eeprom')
       /\ DerivedOdom(eeprom')
       /\ DerivedLidar(eeprom')
       /\ eeprom'.calibration_count = (run.count0 + 1) % W16]_vars

\* C27 as stated: an eligible drift check whose reading equals, on every
\* axis, the sample mean of the last successful inertial calibration
\* leaves the status unchanged.
C27_NoFalseAlarm ==
  [][CallDriftAtRest => calib'.status = calib.status]_vars

====
